---- MODULE Spec2Model ----
(***************************************************************************)
(* State-machine model of the SimCard management API (src/malin.py).       *)
(*                                                                         *)
(* The state is the content of the SQLite tables shops and simcards, the   *)
(* wall clock read by datetime.now(), the supply of fresh uuid4           *)
(* identifiers, and the last request with its response.  Every handler is  *)
(* one action of Spec.  SpecConc runs two assign requests on their own     *)
(* connections, one SQL statement at a time.                               *)
(***************************************************************************)
EXTENDS Integers, FiniteSets, Sequences, TLC

VARIABLES shops, simcards, now, nextShop, nextCard, last, served, reqs, writer

vars == <<shops, simcards, now, nextShop, nextCard, last, served, reqs, writer>>

(* ------------------------------ bounds -------------------------------- *)

\* number of shop identifiers uuid4 ever hands out
MaxShops == 2
\* number of simcard identifiers uuid4 ever hands out
MaxCards == 2
\* last tick of the wall clock
MaxTime == 1
\* number of requests served in one run
MaxRequests == 4

(* ------------------------- values and inputs -------------------------- *)

\* Python None / SQL NULL, and a present optional value
None == <<>>
Some(v) == <<v>>

ShopIds == 1..MaxShops
CardIds == 1..MaxCards

Codes == {"c1", "c2"}

\* class ShopCreate
ShopCreates ==
    { [name |-> n, ownerName |-> "o1", ownerPhone |-> "p1", address |-> "a1",
       latitude |-> None, longitude |-> None, region |-> "r1"] : n \in {"n1"} }

\* class ShopUpdate: every field Optional, default None
NoShopUpdate ==
    [name |-> None, ownerName |-> None, ownerPhone |-> None, address |-> None,
     latitude |-> None, longitude |-> None, status |-> None, region |-> None]

ShopUpdates ==
    { NoShopUpdate,
      [NoShopUpdate EXCEPT !.name = Some("n2"), !.latitude = Some(41),
                           !.status = Some("inactive")] }

\* class SimCardUpdate: every field Optional, default None; status is any string
NoSimCardUpdate ==
    [code |-> None, status |-> None, assignedTo |-> None, assignedShopName |-> None]

SimCardUpdates ==
    { NoSimCardUpdate,
      [NoSimCardUpdate EXCEPT !.status = Some("sold")],
      [NoSimCardUpdate EXCEPT !.status = Some("lost")],
      [NoSimCardUpdate EXCEPT !.code = Some("c2"), !.status = Some("sold")],
      [NoSimCardUpdate EXCEPT !.status = Some("assigned"), !.assignedTo = Some(1),
                              !.assignedShopName = Some("n1")] }
    \cup { [NoSimCardUpdate EXCEPT !.assignedTo = Some(x)] : x \in ShopIds }

\* class AssignSimCardsRequest: count is any int
Counts == -1 .. (MaxCards + 1)

\* nullable columns of the two tables hold None or Some(v)
NullableCols ==
    {"latitude", "longitude", "assignedTo", "assignedShopName", "saleDate", "lastChecked"}

Col(k, v) == IF k \in NullableCols THEN Some(v) ELSE v

\* the request served last and its response (arg: the body, once the handler read it)
NoRequest == [op |-> "none", http |-> 200, id |-> 0, arg |-> None, resp |-> None, rows |-> {}]

Response(op, http, id, arg, resp, rows) ==
    [op |-> op, http |-> http, id |-> id, arg |-> arg, resp |-> resp, rows |-> rows]

(* ----------------------------- Init ----------------------------------- *)

\* the connections get_db hands to two concurrent requests
Conns == {1, 2}

IdleConn ==
    [pc |-> "idle", request |-> None, shop |-> None, available |-> {}, todo |-> {},
     http |-> 0, resp |-> {}, seen |-> {}]

NoReqs == [r \in Conns |-> IdleConn]

Init ==
    /\ shops = << >>
    /\ simcards = << >>
    /\ now = 0
    /\ nextShop = 1
    /\ nextCard = 1
    /\ last = NoRequest
    /\ served = 0
    /\ reqs = NoReqs
    /\ writer = 0

\* datetime.now() advances between requests
Tick ==
    /\ now < MaxTime
    /\ now' = now + 1
    /\ UNCHANGED <<shops, simcards, nextShop, nextCard, last, served, reqs, writer>>

\* one more request is served
Serve ==
    /\ served < MaxRequests
    /\ served' = served + 1

(* ----------------------------- shops ---------------------------------- *)

\* mutant: a full replace, the nullable columns the payload omits become NULL
ApplyUpdate_Replace(row, update_fields) ==
    [k \in DOMAIN row |->
       IF k \in DOMAIN update_fields THEN update_fields[k]
       ELSE IF k \in NullableCols THEN None ELSE row[k]]

\* UPDATE <table> SET k = ? ... for the keys of update_fields
ApplyUpdate(row, update_fields) ==
    [k \in DOMAIN row |-> IF k \in DOMAIN update_fields THEN update_fields[k] ELSE row[k]]

\* dict(row) with assignedSimCards = json.loads(...): "[]" is the empty list
ShopDict(row) == [row EXCEPT !.assignedSimCards = << >>]

create_shop(shop) ==
    /\ Serve
    /\ nextShop <= MaxShops
    /\ LET shop_id == nextShop
           row == [id |-> shop_id, name |-> shop.name, ownerName |-> shop.ownerName,
                   ownerPhone |-> shop.ownerPhone, address |-> shop.address,
                   latitude |-> shop.latitude, longitude |-> shop.longitude,
                   status |-> "active", region |-> shop.region,
                   assignedSimCards |-> "[]", addedDate |-> now]
       IN /\ shops' = (shop_id :> row) @@ shops
          /\ nextShop' = nextShop + 1
          /\ last' = Response("createShop", 200, shop_id, shop, ShopDict(row), {})
    /\ UNCHANGED <<simcards, now, nextCard, reqs, writer>>

ShopUpdateFields(shop) ==
    [k \in {f \in DOMAIN shop : shop[f] # None} |-> Col(k, shop[k][1])]

update_shop(shop_id, shop) ==
    /\ Serve
    /\ IF shop_id \notin DOMAIN shops
       THEN /\ last' = Response("updateShop", 404, shop_id, None, None, {})
            /\ UNCHANGED shops
       ELSE LET update_fields == ShopUpdateFields(shop)
                row == ApplyUpdate(shops[shop_id], update_fields)
            IN /\ shops' = [shops EXCEPT ![shop_id] = row]
               /\ last' = Response("updateShop", 200, shop_id, shop, ShopDict(row), {})
    /\ UNCHANGED <<simcards, now, nextShop, nextCard, reqs, writer>>

\* mutant: the cascade resets only the cards still in status assigned
CascadeReset_AssignedOnly(cards, shop_id) ==
    [c \in DOMAIN cards |->
       IF cards[c].assignedTo = Some(shop_id) /\ cards[c].status = "assigned"
       THEN [cards[c] EXCEPT !.status = "available", !.assignedTo = None,
                             !.assignedShopName = None]
       ELSE cards[c]]

\* UPDATE simcards SET status = 'available', assignedTo = NULL,
\* assignedShopName = NULL WHERE assignedTo = ?
CascadeReset(cards, shop_id) ==
    [c \in DOMAIN cards |->
       IF cards[c].assignedTo = Some(shop_id)
       THEN [cards[c] EXCEPT !.status = "available", !.assignedTo = None,
                             !.assignedShopName = None]
       ELSE cards[c]]

delete_shop(shop_id) ==
    /\ Serve
    /\ IF shop_id \notin DOMAIN shops
       THEN /\ last' = Response("deleteShop", 404, shop_id, None, None, {})
            /\ UNCHANGED <<shops, simcards>>
       ELSE /\ shops' = [s \in DOMAIN shops \ {shop_id} |-> shops[s]]
            /\ simcards' = CascadeReset(simcards, shop_id)
            /\ last' = Response("deleteShop", 200, shop_id, None, [success |-> TRUE],
                                {c \in DOMAIN simcards : simcards[c].assignedTo = Some(shop_id)})
    /\ UNCHANGED <<now, nextShop, nextCard, reqs, writer>>

(* ---------------------------- simcards -------------------------------- *)

\* mutant: simcards.code without its UNIQUE constraint
CodeTaken_Never(cards, id, code) == FALSE

\* the UNIQUE constraint on simcards.code, for a row written under identifier id
CodeTaken(cards, id, code) ==
    \E c \in DOMAIN cards : c # id /\ cards[c].code = code

create_simcard(simcard) ==
    /\ Serve
    /\ nextCard <= MaxCards
    /\ LET simcard_id == nextCard
           row == [id |-> simcard_id, code |-> simcard.code, status |-> "available",
                   assignedTo |-> None, assignedShopName |-> None, addedDate |-> now,
                   saleDate |-> None, lastChecked |-> None]
       IN IF CodeTaken(simcards, simcard_id, simcard.code)
          THEN \* sqlite3.IntegrityError; the uuid is spent, nothing is stored
               /\ last' = Response("createSimCard", 400, simcard_id, simcard, None, {})
               /\ UNCHANGED simcards
          ELSE /\ simcards' = (simcard_id :> row) @@ simcards
               /\ last' = Response("createSimCard", 200, simcard_id, simcard, row, {simcard_id})
    /\ nextCard' = nextCard + 1
    /\ UNCHANGED <<shops, now, nextShop, reqs, writer>>

\* mutant: saleDate is stamped whenever a status is given
SimCardUpdateFields_StampAnyStatus(simcard) ==
    LET given == {f \in DOMAIN simcard : simcard[f] # None}
        stamp == IF simcard.status # None THEN {"saleDate"} ELSE {}
    IN [k \in given \cup stamp |->
           IF k = "saleDate" THEN Some(now) ELSE Col(k, simcard[k][1])]

\* update_fields as built from the payload; status "sold" adds saleDate = now
SimCardUpdateFields(simcard) ==
    LET given == {f \in DOMAIN simcard : simcard[f] # None}
        stamp == IF simcard.status = Some("sold") THEN {"saleDate"} ELSE {}
    IN [k \in given \cup stamp |->
           IF k = "saleDate" THEN Some(now) ELSE Col(k, simcard[k][1])]

update_simcard(simcard_id, simcard) ==
    /\ Serve
    /\ IF simcard_id \notin DOMAIN simcards
       THEN /\ last' = Response("updateSimCard", 404, simcard_id, None, None, {})
            /\ UNCHANGED simcards
       ELSE LET update_fields == SimCardUpdateFields(simcard)
                row == ApplyUpdate(simcards[simcard_id], update_fields)
            IN IF CodeTaken(simcards, simcard_id, row.code)
               THEN \* sqlite3.IntegrityError is not caught: no commit
                    /\ last' = Response("updateSimCard", 500, simcard_id, simcard, None, {})
                    /\ UNCHANGED simcards
               ELSE /\ simcards' = [simcards EXCEPT ![simcard_id] = row]
                    /\ last' = Response("updateSimCard", 200, simcard_id, simcard, row,
                                        IF DOMAIN update_fields = {} THEN {} ELSE {simcard_id})
    /\ UNCHANGED <<shops, now, nextShop, nextCard, reqs, writer>>

delete_simcard(simcard_id) ==
    /\ Serve
    /\ IF simcard_id \notin DOMAIN simcards
       THEN /\ last' = Response("deleteSimCard", 404, simcard_id, None, None, {})
            /\ UNCHANGED simcards
       ELSE /\ simcards' = [c \in DOMAIN simcards \ {simcard_id} |-> simcards[c]]
            /\ last' = Response("deleteSimCard", 200, simcard_id, None, [success |-> TRUE], {simcard_id})
    /\ UNCHANGED <<shops, now, nextShop, nextCard, reqs, writer>>

\* mutant: the SELECT without its WHERE status = 'available'
AvailableLimit_AnyStatus(cards, count) ==
    LET avail == DOMAIN cards
        k == IF count < 0 \/ count > Cardinality(avail) THEN Cardinality(avail) ELSE count
    IN {S \in SUBSET avail : Cardinality(S) = k}

\* SELECT * FROM simcards WHERE status = 'available' LIMIT count: the row sets
\* the statement may return (no ORDER BY; a negative LIMIT is no limit)
AvailableLimit(cards, count) ==
    LET avail == {c \in DOMAIN cards : cards[c].status = "available"}
        k == IF count < 0 \/ count > Cardinality(avail) THEN Cardinality(avail) ELSE count
    IN {S \in SUBSET avail : Cardinality(S) = k}

\* UPDATE simcards SET status = 'assigned', assignedTo = ?, assignedShopName = ? WHERE id = ?
AssignRow(row, shop_id, shop_name) ==
    [row EXCEPT !.status = "assigned", !.assignedTo = Some(shop_id),
                !.assignedShopName = Some(shop_name)]

\* the entries of assigned_cards
AssignedCards(cards, S, shop_id, shop_name) ==
    { [id |-> c, code |-> cards[c].code, status |-> "assigned",
       assignedTo |-> shop_id, assignedShopName |-> shop_name] : c \in S }

assign_simcards_to_shop(request) ==
    /\ Serve
    /\ IF request.shopId \notin DOMAIN shops
       THEN /\ last' = Response("assignSimCards", 404, request.shopId, None, None, {})
            /\ UNCHANGED simcards
       ELSE \E available_simcards \in AvailableLimit(simcards, request.count) :
              LET shop == shops[request.shopId] IN
              IF Cardinality(available_simcards) < request.count
              THEN /\ last' = Response("assignSimCards", 400, request.shopId, request,
                                       Cardinality(available_simcards), {})
                   /\ UNCHANGED simcards
              ELSE /\ simcards' = [c \in DOMAIN simcards |->
                                     IF c \in available_simcards
                                     THEN AssignRow(simcards[c], request.shopId, shop.name)
                                     ELSE simcards[c]]
                   /\ last' = Response("assignSimCards", 200, request.shopId, request,
                                       AssignedCards(simcards, available_simcards,
                                                     request.shopId, shop.name),
                                       available_simcards)
    /\ UNCHANGED <<shops, now, nextShop, nextCard, reqs, writer>>

check_simcard_status(simcard_id) ==
    /\ Serve
    /\ IF simcard_id \notin DOMAIN simcards
       THEN /\ last' = Response("checkStatus", 404, simcard_id, None, None, {})
            /\ UNCHANGED simcards
       ELSE LET simcard == simcards[simcard_id]
            IN /\ simcards' = [simcards EXCEPT ![simcard_id].lastChecked = Some(now)]
               \* return dict(simcard): the row fetched before the UPDATE
               /\ last' = Response("checkStatus", 200, simcard_id, None, simcard, {simcard_id})
    /\ UNCHANGED <<shops, now, nextShop, nextCard, reqs, writer>>

\* the id lists of an auto-check request body
AutoCheckLists ==
    {<< >>} \cup {<<a>> : a \in CardIds} \cup {<<a, b>> : a \in CardIds, b \in {1}}

RECURSIVE AutoCheckResults(_, _, _)
AutoCheckResults(cards, ids, timestamp) ==
    IF ids = << >> THEN << >>
    ELSE LET simcard_id == Head(ids)
             rest == AutoCheckResults(cards, Tail(ids), timestamp)
         IN IF simcard_id \in DOMAIN cards
            THEN << [simCardId |-> simcard_id, status |-> cards[simcard_id].status,
                     isSold |-> (cards[simcard_id].status = "sold"),
                     saleDate |-> cards[simcard_id].saleDate,
                     lastChecked |-> timestamp] >> \o rest
            ELSE rest

auto_check_simcards(ids) ==
    /\ Serve
    /\ LET timestamp == now
           found == {ids[i] : i \in DOMAIN ids} \cap DOMAIN simcards
       IN /\ simcards' = [c \in DOMAIN simcards |->
                            IF c \in found
                            THEN [simcards[c] EXCEPT !.lastChecked = Some(timestamp)]
                            ELSE simcards[c]]
          /\ last' = Response("autoCheck", 200, 0, ids,
                              [results |-> AutoCheckResults(simcards, ids, timestamp),
                               timestamp |-> timestamp], found)
    /\ UNCHANGED <<shops, now, nextShop, nextCard, reqs, writer>>

(* ---------------------------- statistics ------------------------------ *)

CountStatus(cards, st) == Cardinality({c \in DOMAIN cards : cards[c].status = st})

get_statistics ==
    [totalShops |-> Cardinality(DOMAIN shops),
     activeShops |-> Cardinality({s \in DOMAIN shops : shops[s].status = "active"}),
     totalSimCards |-> Cardinality(DOMAIN simcards),
     availableSimCards |-> CountStatus(simcards, "available"),
     assignedSimCards |-> CountStatus(simcards, "assigned"),
     soldSimCards |-> CountStatus(simcards, "sold")]

AssignRequests == [shopId : ShopIds, count : Counts]

Next ==
    \/ Tick
    \/ \E shop \in ShopCreates : create_shop(shop)
    \/ \E shop_id \in ShopIds, shop \in ShopUpdates : update_shop(shop_id, shop)
    \/ \E shop_id \in ShopIds : delete_shop(shop_id)
    \/ \E code \in Codes : create_simcard([code |-> code])
    \/ \E simcard_id \in CardIds, simcard \in SimCardUpdates : update_simcard(simcard_id, simcard)
    \/ \E simcard_id \in CardIds : delete_simcard(simcard_id)
    \/ \E request \in AssignRequests : assign_simcards_to_shop(request)
    \/ \E simcard_id \in CardIds : check_simcard_status(simcard_id)
    \/ \E ids \in AutoCheckLists : auto_check_simcards(ids)

Spec == Init /\ [][Next]_vars

(* --------------- two assign requests, statement by statement ----------- *)

\* simcards.code of the rows stored before the two requests arrive
CodePool == <<"c1", "c2", "c3", "c4">>

\* a database left by earlier create requests: some shops, some available cards
InitConc ==
    /\ \E S \in SUBSET ShopIds :
         shops = [s \in S |->
                    [id |-> s, name |-> "n1", ownerName |-> "o1", ownerPhone |-> "p1",
                     address |-> "a1", latitude |-> None, longitude |-> None,
                     status |-> "active", region |-> "r1", assignedSimCards |-> "[]",
                     addedDate |-> 0]]
    /\ \E k \in 0..MaxCards :
         simcards = [c \in 1..k |->
                       [id |-> c, code |-> CodePool[c], status |-> "available",
                        assignedTo |-> None, assignedShopName |-> None, addedDate |-> 0,
                        saleDate |-> None, lastChecked |-> None]]
    /\ now = 0
    /\ nextShop = MaxShops + 1
    /\ nextCard = MaxCards + 1
    /\ last = NoRequest
    /\ served = 0
    /\ reqs = NoReqs
    /\ writer = 0

\* the connections whose transaction is committed
Committed == {s \in Conns : reqs[s].pc = "done" /\ reqs[s].http = 200}

Done(r, http, resp) == [reqs EXCEPT ![r].pc = "done", ![r].http = http, ![r].resp = resp]

\* SELECT * FROM shops WHERE id = ?
conn_select_shop(r, request) ==
    /\ reqs[r].pc = "idle"
    /\ IF request.shopId \notin DOMAIN shops
       THEN reqs' = [Done(r, 404, {}) EXCEPT ![r].request = request]
       ELSE reqs' = [reqs EXCEPT ![r].pc = "select", ![r].request = request,
                                 ![r].shop = shops[request.shopId]]
    /\ UNCHANGED <<shops, simcards, now, nextShop, nextCard, last, served, writer>>

\* SELECT * FROM simcards WHERE status = 'available' LIMIT ?  (reads what is committed)
conn_select_available(r) ==
    /\ reqs[r].pc = "select"
    /\ \E available_simcards \in AvailableLimit(simcards, reqs[r].request.count) :
         IF Cardinality(available_simcards) < reqs[r].request.count
         THEN reqs' = Done(r, 400, {})
         ELSE reqs' = [reqs EXCEPT ![r].pc = "update",
                                   ![r].available = available_simcards,
                                   ![r].todo = available_simcards,
                                   ![r].seen = Committed]
    /\ UNCHANGED <<shops, simcards, now, nextShop, nextCard, last, served, writer>>

\* one UPDATE simcards ... WHERE id = ? of the loop; the first opens the
\* transaction and takes the write lock of the database file
conn_update(r) ==
    /\ reqs[r].pc = "update"
    /\ reqs[r].todo # {}
    /\ writer \in {0, r}
    /\ \E c \in reqs[r].todo : reqs' = [reqs EXCEPT ![r].todo = @ \ {c}]
    /\ writer' = r
    /\ UNCHANGED <<shops, simcards, now, nextShop, nextCard, last, served>>

\* the write lock is held by the other connection until the busy timeout:
\* sqlite3.OperationalError, not caught
conn_locked(r) ==
    /\ reqs[r].pc = "update"
    /\ reqs[r].todo # {}
    /\ writer \notin {0, r}
    /\ reqs' = Done(r, 500, {})
    /\ UNCHANGED <<shops, simcards, now, nextShop, nextCard, last, served, writer>>

\* db.commit() and the response
conn_commit(r) ==
    /\ reqs[r].pc = "update"
    /\ reqs[r].todo = {}
    /\ LET shop == reqs[r].shop
           shop_id == reqs[r].request.shopId
       IN /\ simcards' = [c \in DOMAIN simcards |->
                            IF c \in reqs[r].available
                            THEN AssignRow(simcards[c], shop_id, shop.name)
                            ELSE simcards[c]]
          /\ reqs' = Done(r, 200, AssignedCards(simcards, reqs[r].available, shop_id, shop.name))
    /\ writer' = IF writer = r THEN 0 ELSE writer
    /\ UNCHANGED <<shops, now, nextShop, nextCard, last, served>>

NextConc ==
    \/ \E r \in Conns, request \in AssignRequests : conn_select_shop(r, request)
    \/ \E r \in Conns : conn_select_available(r)
    \/ \E r \in Conns : conn_update(r)
    \/ \E r \in Conns : conn_locked(r)
    \/ \E r \in Conns : conn_commit(r)

SpecConc == InitConc /\ [][NextConc]_vars



(* ============================== claims ================================= *)

\* a step that serves one request of Spec
Request == served' # served

\* C1 (as claimed): assignSimCards(shopId, n) on an existing shop, for every
\* integer n, either assigns exactly n cards that were available (each now
\* assigned to shopId, every other card unchanged) or fails with BadRequest
\* and changes no SimCard.
C1_AssignExactlyOrNothing ==
    [][ (Request /\ last'.op = "assignSimCards" /\ last'.id \in DOMAIN shops) =>
        LET n == last'.arg.count
            S == {c \in DOMAIN simcards : simcards'[c] # simcards[c]}
        IN \/ /\ last'.http = 200
              /\ DOMAIN simcards' = DOMAIN simcards
              /\ Cardinality(S) = n
              /\ \A c \in S : /\ simcards[c].status = "available"
                              /\ simcards'[c].status = "assigned"
                              /\ simcards'[c].assignedTo = Some(last'.id)
           \/ /\ last'.http = 400
              /\ simcards' = simcards ]_vars

\* C2 (as claimed): in every reachable state, status=available implies
\* assignedTo is null and status in {assigned, sold} implies assignedTo is set.
C2_StatusMatchesAssignment ==
    \A c \in DOMAIN simcards :
        /\ simcards[c].status = "available" => simcards[c].assignedTo = None
        /\ simcards[c].status \in {"assigned", "sold"} => simcards[c].assignedTo # None

C5_TotalIsSumOfStatuses ==
    get_statistics.totalSimCards =
        get_statistics.availableSimCards + get_statistics.assignedSimCards
        + get_statistics.soldSimCards

\* the columns a payload leaves out
Omitted(row, payload) == {k \in DOMAIN row : k \notin DOMAIN payload \/ payload[k] = None}

\* C6 (as claimed): an update of an existing shop or card keeps every column
\* that the payload omits (saleDate, lastChecked and addedDate included), and
\* with an empty payload the row is unchanged and returned as it was.
C6_OmittedFieldsKept ==
    [][ /\ (Request /\ last'.op = "updateShop" /\ last'.id \in DOMAIN shops) =>
             /\ last'.id \in DOMAIN shops'
             /\ \A k \in Omitted(shops[last'.id], last'.arg) :
                  shops'[last'.id][k] = shops[last'.id][k]
             /\ last'.arg = NoShopUpdate =>
                  /\ shops' = shops
                  /\ last'.http = 200
                  /\ \A k \in DOMAIN last'.resp \ {"assignedSimCards"} :
                       last'.resp[k] = shops[last'.id][k]
        /\ (Request /\ last'.op = "updateSimCard" /\ last'.id \in DOMAIN simcards) =>
             /\ last'.id \in DOMAIN simcards'
             /\ \A k \in Omitted(simcards[last'.id], last'.arg) :
                  simcards'[last'.id][k] = simcards[last'.id][k]
             /\ last'.arg = NoSimCardUpdate =>
                  /\ simcards' = simcards
                  /\ last'.http = 200
                  /\ last'.resp = simcards[last'.id] ]_vars

\* C6 (amended): an update of an existing shop or card keeps every column
\* that the payload omits, except saleDate when the payload sets status to
\* "sold"; with an empty payload the row is unchanged and returned as it was.
C6_OmittedFieldsKeptButSaleDate ==
    [][ /\ (Request /\ last'.op = "updateShop" /\ last'.id \in DOMAIN shops) =>
             /\ last'.id \in DOMAIN shops'
             /\ \A k \in Omitted(shops[last'.id], last'.arg) :
                  shops'[last'.id][k] = shops[last'.id][k]
             /\ last'.arg = NoShopUpdate =>
                  /\ shops' = shops
                  /\ last'.http = 200
                  /\ \A k \in DOMAIN last'.resp \ {"assignedSimCards"} :
                       last'.resp[k] = shops[last'.id][k]
        /\ (Request /\ last'.op = "updateSimCard" /\ last'.id \in DOMAIN simcards) =>
             /\ last'.id \in DOMAIN simcards'
             /\ \A k \in Omitted(simcards[last'.id], last'.arg) :
                  (k = "saleDate" /\ last'.arg.status = Some("sold"))
                  \/ simcards'[last'.id][k] = simcards[last'.id][k]
             /\ last'.arg = NoSimCardUpdate =>
                  /\ simcards' = simcards
                  /\ last'.http = 200
                  /\ last'.resp = simcards[last'.id] ]_vars

\* C6 witness: a card updated with status "sold" only has kept the assignedTo
\* and lastChecked it had, which the payload omitted.
C6_Witness ==
    /\ last.op = "updateSimCard" /\ last.http = 200
    /\ last.arg = [NoSimCardUpdate EXCEPT !.status = Some("sold")]
    /\ last.id \in DOMAIN simcards
    /\ simcards[last.id].assignedTo # None
    /\ simcards[last.id].lastChecked # None

\* C7: createSimCard with the code of a stored card answers 400 and leaves the
\* stored cards unchanged; with a code no stored card holds (never used, or
\* its holder deleted) it stores one new available card with that code.
C7_DuplicateCodeConflict ==
    [][ (Request /\ last'.op = "createSimCard") =>
        IF \E c \in DOMAIN simcards : simcards[c].code = last'.arg.code
        THEN /\ last'.http = 400
             /\ simcards' = simcards
        ELSE /\ last'.http = 200
             /\ last'.id \notin DOMAIN simcards
             /\ DOMAIN simcards' = DOMAIN simcards \cup {last'.id}
             /\ simcards'[last'.id].code = last'.arg.code
             /\ \A c \in DOMAIN simcards : simcards'[c] = simcards[c] ]_vars

\* C7 witness: a create was refused because a stored card holds the code.
C7_Witness ==
    /\ last.op = "createSimCard" /\ last.http = 400
    /\ \E c \in DOMAIN simcards : simcards[c].code = last.arg.code

C9_CheckStatusReturnsStampedRow ==
    (last.op = "checkStatus" /\ last.http = 200 /\ last.id \in DOMAIN simcards)
    => last.resp.lastChecked = simcards[last.id].lastChecked

\* C10 (as claimed): in every reachable state every card with a non-null
\* assignedTo references a shop that exists.
C10_AssignedShopExists ==
    \A c \in DOMAIN simcards :
        simcards[c].assignedTo # None => simcards[c].assignedTo[1] \in DOMAIN shops

====
